---- MODULE Spec2Model ----
(***************************************************************************)
(* A model of the TimeMachine of ha_integration_test_harness               *)
(* (src/src/ha_integration_test_harness/time_machine.py): its logical time *)
(* _fake_time, and the operations fast_forward, jump_to_next and           *)
(* advance_to_preset, each ending in _set_time (sink call, commit, hook);  *)
(* of the clock of the system under test that the sink sets; and of the    *)
(* session's other two objects, the HomeAssistant client with its tracked  *)
(* test entities (homeassistant_client.py) and the DockerComposeManager    *)
(* with its containers and staged configuration (docker_manager.py).       *)
(*                                                                         *)
(* A datetime is a record of its seven fields, compared field by field as  *)
(* Python compares naive datetimes; a timedelta is Python's normalised     *)
(* triple (days, seconds, microseconds).  An optional argument is <<>>     *)
(* (None) or <<v>>.                                                        *)
(***************************************************************************)
EXTENDS Integers, Sequences, FiniteSets, TLC

VARIABLES
    fake_time,              \* TimeMachine._fake_time
    on_time_set,            \* whether a hook was given to the TimeMachine
    get_entity_state,       \* whether an oracle callback was given to it
    calls,                  \* the number of TimeMachine operations so far
    last,                   \* the record of the last operation of the session
    sut_time,               \* the time the system under test observes
    real_elapsed,           \* seconds of real time since the TimeMachine was made
    created_entities,       \* HomeAssistant._created_entities
    ha_states,              \* the entity ids that have a state in Home Assistant
    given,                  \* the ids some given_an_entity call has set the state of
    containers,             \* the services in DockerComposeManager._containers
    staged_ha_config_root,  \* DockerComposeManager._staged_ha_config_root
    persistent_entities_path, \* whether the manager was given persistent entities
    up_invoked,             \* docker compose up was run, and no down since
    faketime_file           \* the content of /shared_data/.faketime in the container

clockVars == <<sut_time, real_elapsed>>
clientVars == <<created_entities, ha_states, given>>
managerVars == <<containers, staged_ha_config_root, persistent_entities_path, up_invoked>>
dockerVars == <<managerVars, faketime_file>>
machineVars == <<fake_time, on_time_set, get_entity_state, calls>>

vars == <<machineVars, last, clockVars, clientVars, dockerVars>>

\* The number of operations one behaviour performs on the TimeMachine.
MaxCalls == 2

\* A fresh HomeAssistant client (homeassistant_client.py:28-30) and a
\* DockerComposeManager before start() (docker_manager.py:139-143).
ClientUnused == created_entities = {} /\ ha_states = {} /\ given = {}
DockerUnused ==
    /\ containers = {} /\ staged_ha_config_root = "None" /\ persistent_entities_path = FALSE
    /\ up_invoked = FALSE /\ faketime_file = "None"

None == <<>>
Some(v) == <<v>>
IsNone(x) == x = <<>>
Val(x) == x[1]

(***************************************************************************)
(* Calendar arithmetic of datetime / timedelta, as the operations use it.  *)
(***************************************************************************)
DT(y, mo, d, h, mi, s, us) ==
    [year |-> y, month |-> mo, day |-> d, hour |-> h, minute |-> mi,
     second |-> s, microsecond |-> us]

IsLeap(y) == y % 4 = 0 /\ (y % 100 # 0 \/ y % 400 = 0)

DaysInMonth(y, m) ==
    IF m = 2 THEN (IF IsLeap(y) THEN 29 ELSE 28)
    ELSE IF m \in {4, 6, 9, 11} THEN 30 ELSE 31

RECURSIVE DaysBeforeMonth(_, _)
DaysBeforeMonth(y, m) ==
    IF m = 1 THEN 0 ELSE DaysBeforeMonth(y, m - 1) + DaysInMonth(y, m - 1)

DaysBeforeYear(y) ==
    (y - 1) * 365 + ((y - 1) \div 4) - ((y - 1) \div 100) + ((y - 1) \div 400)

\* date.toordinal(): 1 is 0001-01-01.
ToOrdinal(dt) == DaysBeforeYear(dt.year) + DaysBeforeMonth(dt.year, dt.month) + dt.day

\* date.fromordinal(n), by the 400/100/4/1-year cycles.
FromOrdinal(n) ==
    LET n0   == n - 1
        n400 == n0 \div 146097
        r400 == n0 % 146097
        n100 == r400 \div 36524
        r100 == r400 % 36524
        n4   == r100 \div 1461
        r4   == r100 % 1461
        n1   == r4 \div 365
        r1   == r4 % 365
        y    == n400 * 400 + 1 + n100 * 100 + n4 * 4 + n1
    IN  IF n1 = 4 \/ n100 = 4
        THEN [year |-> y - 1, month |-> 12, day |-> 31]
        ELSE LET m == CHOOSE k \in 1..12 :
                          /\ DaysBeforeMonth(y, k) <= r1
                          /\ r1 < DaysBeforeMonth(y, k) + DaysInMonth(y, k)
             IN  [year |-> y, month |-> m, day |-> r1 - DaysBeforeMonth(y, m) + 1]

\* date.weekday(): Monday is 0.
Weekday(dt) == (ToOrdinal(dt) + 6) % 7

\* Seconds since midnight.
SecondOfDay(dt) == dt.hour * 3600 + dt.minute * 60 + dt.second

\* datetime comparison: the fields in order, most significant first.
TimeLt(a, b) ==
    LET ka == <<a.year, a.month, a.day, a.hour, a.minute, a.second, a.microsecond>>
        kb == <<b.year, b.month, b.day, b.hour, b.minute, b.second, b.microsecond>>
    IN  \E i \in 1..7 : ka[i] < kb[i] /\ \A j \in 1..(i - 1) : ka[j] = kb[j]

TimeLe(a, b) == a = b \/ TimeLt(a, b)

\* timedelta(days=d, seconds=s, microseconds=us), normalised as Python does:
\* 0 <= seconds < 86400, 0 <= microseconds < 1000000, the sign in days.
Timedelta(d, s, us) ==
    LET s2 == s + (us \div 1000000)
    IN  [days |-> d + (s2 \div 86400), seconds |-> s2 % 86400,
         microseconds |-> us % 1000000]

\* timedelta + timedelta.
TimedeltaSum(a, b) ==
    Timedelta(a.days + b.days, a.seconds + b.seconds, a.microseconds + b.microseconds)

\* datetime + timedelta: through the ordinal and the second of the day.
AddTimedelta(dt, td) ==
    LET sum == Timedelta(ToOrdinal(dt) + td.days, SecondOfDay(dt) + td.seconds,
                         dt.microsecond + td.microseconds)
        ymd == FromOrdinal(sum.days)
    IN  DT(ymd.year, ymd.month, ymd.day, sum.seconds \div 3600,
           (sum.seconds % 3600) \div 60, sum.seconds % 60, sum.microseconds)

AddDays(dt, n) == AddTimedelta(dt, Timedelta(n, 0, 0))

\* strftime zero-pads every field but the year.
Pad2(n) == IF n < 10 THEN "0" \o ToString(n) ELSE ToString(n)

\* strftime("%Y-%m-%d %H:%M:%S"): the microsecond is not printed.
Strftime(dt) ==
    ToString(dt.year) \o "-" \o Pad2(dt.month) \o "-" \o Pad2(dt.day) \o " " \o
    Pad2(dt.hour) \o ":" \o Pad2(dt.minute) \o ":" \o Pad2(dt.second)

\* The string handed to libfaketime: "@YYYY-MM-DD HH:MM:SS".
FaketimeString(dt) == "@" \o Strftime(dt)

(***************************************************************************)
(* The result of one call: how it returned, what it handed to the sink and *)
(* to the hook, and the logical time it leaves.                            *)
(***************************************************************************)

\* A computation that yields a datetime or raises ValueError.
Ok(dt) == [ok |-> TRUE, dt |-> dt]
Raised == [ok |-> FALSE]

\* Mutant: the assignment to self._fake_time is lost.
CommittedTimeStale(pre, target_dt) == pre

\* Mutant: the committed time is the one the sink's string names, in whole seconds.
CommittedTimeInSeconds(pre, target_dt) == [target_dt EXCEPT !.microsecond = 0]

\* self._fake_time = target_dt, reached only after the sink call returned.
CommittedTime(pre, target_dt) == target_dt

\* Mutant: self._fake_time is assigned before the sink is called.
TimeCommittedBeforeSink(pre, target_dt) == target_dt

\* The logical time when self._apply_faketime raised: the assignment was not reached.
TimeAfterSinkFailure(pre, target_dt) == pre

\* Mutant: a _set_time that calls the hook before the sink.
SetTimeHookFirst(pre, target_dt, sinkRaises, hookRaises) ==
    LET time_str == FaketimeString(target_dt)
        sunk     == <<[arg |-> time_str, target |-> target_dt, raised |-> sinkRaises]>>
        hooked   == IF on_time_set THEN <<[raised |-> hookRaises]>> ELSE <<>>
    IN  IF on_time_set /\ hookRaises
        THEN [time |-> pre, result |-> "TimeMachineError",
              sink_calls |-> <<>>, hook_calls |-> hooked]
        ELSE IF sinkRaises
        THEN [time |-> pre, result |-> "TimeMachineError",
              sink_calls |-> sunk, hook_calls |-> hooked]
        ELSE [time |-> target_dt, result |-> "ok", sink_calls |-> sunk, hook_calls |-> hooked]

\* _set_time: format, call the sink, commit, call the hook; any exception of the
\* try block (the sink's or the hook's) is re-raised as TimeMachineError.  A sink
\* call is recorded with the string it received and the target_dt it was made from.
SetTime(pre, target_dt, sinkRaises, hookRaises) ==
    LET time_str == FaketimeString(target_dt)
        sunk     == <<[arg |-> time_str, target |-> target_dt, raised |-> sinkRaises]>>
    IN  IF sinkRaises
        THEN [time |-> TimeAfterSinkFailure(pre, target_dt),
              result |-> "TimeMachineError", sink_calls |-> sunk, hook_calls |-> <<>>]
        ELSE IF on_time_set
        THEN [time |-> CommittedTime(pre, target_dt),
              result |-> IF hookRaises THEN "TimeMachineError" ELSE "ok",
              sink_calls |-> sunk, hook_calls |-> <<[raised |-> hookRaises]>>]
        ELSE [time |-> CommittedTime(pre, target_dt), result |-> "ok",
              sink_calls |-> sunk, hook_calls |-> <<>>]

\* A call that raised before _set_time: nothing was called, nothing changed.
Rejected(pre, error) ==
    [time |-> pre, result |-> error, sink_calls |-> <<>>, hook_calls |-> <<>>]

\* What the environment may do to the hook, when one is configured.
HookOutcomes == IF on_time_set THEN BOOLEAN ELSE {FALSE}

\* The time the system under test observes once the sink has taken a time string
\* "@YYYY-MM-DD HH:MM:SS": the time the string was made from, in whole seconds.
SutAfterSink(sink_call) == [sink_call.target EXCEPT !.microsecond = 0]

\* The system under test after a call: set by a sink call that did not raise.
SutAfter(now, sink_calls) ==
    IF sink_calls # <<>> /\ ~sink_calls[1].raised THEN SutAfterSink(sink_calls[1]) ELSE now

\* The call's result becomes the state: the logical time and the record of the
\* call, with what the sink made of the system under test and of the faketime file.
ReturnWith(op, args, r, sut, file) ==
    /\ fake_time' = r.time
    /\ last' = [op |-> op, args |-> args, pre |-> fake_time, result |-> r.result,
                sink_calls |-> r.sink_calls, hook_calls |-> r.hook_calls]
    /\ calls' = calls + 1
    /\ sut_time' = sut
    /\ faketime_file' = file
    /\ UNCHANGED <<on_time_set, get_entity_state, real_elapsed, clientVars, managerVars>>

\* A TimeMachine with a sink of its own, which sets the system under test when it
\* returns and writes no file of the manager's container.
Return(op, args, r) ==
    ReturnWith(op, args, r, SutAfter(sut_time, r.sink_calls), faketime_file)

(***************************************************************************)
(* fast_forward                                                            *)
(***************************************************************************)

\* Mutant: delta.seconds < 0, which no normalised timedelta satisfies.
IsNegativeBySeconds(delta) == delta.seconds < 0

\* Mutant: delta.total_seconds() <= 0.
IsNotPositive(delta) == delta.days < 0 \/ delta = Timedelta(0, 0, 0)

\* A fast_forward that takes any delta.
IsNeverNegative(delta) == FALSE

\* delta.total_seconds() < 0: of a normalised timedelta, the sign of its days.
IsNegative(delta) == delta.days < 0

\* target_dt = self._fake_time + delta: from the last applied time.
FastForwardTarget(now, delta) == AddTimedelta(now, delta)

FastForwardResult(now, delta, sinkRaises, hookRaises) ==
    IF IsNegative(delta)
    THEN Rejected(now, "ValueError")
    ELSE SetTime(now, FastForwardTarget(now, delta), sinkRaises, hookRaises)

\* The durations the calls are made with: -1 s, -1 us, 0, 0.5 s, 14:37:42,
\* 1 day 04:30:00, 2 days.
Deltas ==
    { Timedelta(0, -1, 0), Timedelta(0, 0, -1), Timedelta(0, 0, 0),
      Timedelta(0, 0, 500000), Timedelta(0, 52662, 0),
      Timedelta(1, 16200, 0), Timedelta(2, 0, 0) }

fast_forward ==
    /\ calls < MaxCalls
    /\ \E delta \in Deltas, sinkRaises \in BOOLEAN, hookRaises \in HookOutcomes :
           Return("fast_forward", [delta |-> delta],
                  FastForwardResult(fake_time, delta, sinkRaises, hookRaises))

(***************************************************************************)
(* jump_to_next                                                            *)
(***************************************************************************)

\* str.lower() on the names the calls are made with.
Lower(name) ==
    CASE name = "Jan" -> "jan"
      [] name = "Feb" -> "feb"
      [] name = "APRIL" -> "april"
      [] name = "December" -> "december"
      [] name = "Monday" -> "monday"
      [] name = "Wed" -> "wed"
      [] name = "Sunrise" -> "sunrise"
      [] name = "SUNSET" -> "sunset"
      [] name = "Noon" -> "noon"
      [] OTHER -> name

MONTH_NAMES ==
    [n \in {"jan", "january"} |-> 1] @@ [n \in {"feb", "february"} |-> 2] @@
    [n \in {"mar", "march"} |-> 3] @@ [n \in {"apr", "april"} |-> 4] @@
    [n \in {"may"} |-> 5] @@ [n \in {"jun", "june"} |-> 6] @@
    [n \in {"jul", "july"} |-> 7] @@ [n \in {"aug", "august"} |-> 8] @@
    [n \in {"sep", "september"} |-> 9] @@ [n \in {"oct", "october"} |-> 10] @@
    [n \in {"nov", "november"} |-> 11] @@ [n \in {"dec", "december"} |-> 12]

DAY_NAMES ==
    [n \in {"mon", "monday"} |-> 0] @@ [n \in {"tue", "tuesday"} |-> 1] @@
    [n \in {"wed", "wednesday"} |-> 2] @@ [n \in {"thu", "thursday"} |-> 3] @@
    [n \in {"fri", "friday"} |-> 4] @@ [n \in {"sat", "saturday"} |-> 5] @@
    [n \in {"sun", "sunday"} |-> 6]

\* datetime.replace(month=m): ValueError when the day does not exist in that month.
ReplaceMonth(dt, m) ==
    IF dt.day <= DaysInMonth(dt.year, m) THEN Ok([dt EXCEPT !.month = m]) ELSE Raised

\* datetime.replace(day=d): ValueError when the month has no such day.
ReplaceDay(dt, d) ==
    IF d <= DaysInMonth(dt.year, dt.month) THEN Ok([dt EXCEPT !.day = d]) ELSE Raised

\* dt + relativedelta(years=years, months=months, month=month, day=day): the absolute
\* month replaces, the relative ones are added, and the day (the absolute one, or
\* dt's) is clamped to the length of the resulting month.
Relativedelta(dt, years, months, month, day) ==
    LET m0 == (IF IsNone(month) THEN dt.month ELSE Val(month)) + months
        y  == dt.year + years + (IF m0 > 12 THEN 1 ELSE 0)
        m  == IF m0 > 12 THEN m0 - 12 ELSE m0
        d0 == IF IsNone(day) THEN dt.day ELSE Val(day)
        d  == IF d0 > DaysInMonth(y, m) THEN DaysInMonth(y, m) ELSE d0
    IN  [dt EXCEPT !.year = y, !.month = m, !.day = d]

\* Step 1: the month, in this year when it is still ahead, else next year.
MonthStep(target_dt, month) ==
    IF IsNone(month) THEN Ok(target_dt)
    ELSE IF Lower(Val(month)) \notin DOMAIN MONTH_NAMES THEN Raised
    ELSE LET target_month == MONTH_NAMES[Lower(Val(month))]
         IN  IF target_month <= target_dt.month
             THEN Ok(Relativedelta(target_dt, 1, 0, Some(target_month), None))
             ELSE ReplaceMonth(target_dt, target_month)

\* Step 2, when the day exists in the month but is not after now: the next month,
\* with the day clamped to that month's last day.
DayInNextMonth(target_dt, day_of_month) ==
    LET next_dt == Relativedelta(target_dt, 0, 1, None, None)
        set_dt  == ReplaceDay(next_dt, day_of_month)
    IN  IF set_dt.ok THEN set_dt.dt ELSE Relativedelta(next_dt, 0, 0, None, Some(31))

\* Mutant: the day is set in the candidate's month even when that is not after now.
DayOfMonthStepInPlace(now, target_dt, day_of_month) ==
    IF IsNone(day_of_month) THEN Ok(target_dt)
    ELSE IF ~(1 <= Val(day_of_month) /\ Val(day_of_month) <= 31) THEN Raised
    ELSE LET candidate_dt == ReplaceDay(target_dt, Val(day_of_month))
         IN  IF ~candidate_dt.ok
             THEN Ok(Relativedelta(target_dt, 0, 1, None, day_of_month))
             ELSE candidate_dt

\* Step 2: the day of the month, in the candidate's month or in the next one.
DayOfMonthStep(now, target_dt, day_of_month) ==
    IF IsNone(day_of_month) THEN Ok(target_dt)
    ELSE IF ~(1 <= Val(day_of_month) /\ Val(day_of_month) <= 31) THEN Raised
    ELSE LET candidate_dt == ReplaceDay(target_dt, Val(day_of_month))
         IN  IF ~candidate_dt.ok
             THEN Ok(Relativedelta(target_dt, 0, 1, None, day_of_month))
             ELSE IF TimeLe(candidate_dt.dt, now)
             THEN Ok(DayInNextMonth(target_dt, Val(day_of_month)))
             ELSE candidate_dt

\* Mutant: never a full week.
DaysAheadWithinWeek(now, target_dt, target_weekday) ==
    (target_weekday - Weekday(target_dt)) % 7

\* Mutant: (current_weekday - target_weekday) % 7.
DaysAheadReversed(now, target_dt, target_weekday) ==
    LET days_ahead == (Weekday(target_dt) - target_weekday) % 7
    IN  IF days_ahead = 0 /\ TimeLe(target_dt, now) THEN 7 ELSE days_ahead

\* Step 3: the days to add to reach the weekday; a full week when the candidate is
\* on it already and is not after now.
DaysAhead(now, target_dt, target_weekday) ==
    LET days_ahead == (target_weekday - Weekday(target_dt)) % 7
    IN  IF days_ahead = 0 /\ TimeLe(target_dt, now) THEN 7 ELSE days_ahead

WeekdayStep(now, target_dt, day) ==
    IF IsNone(day) THEN Ok(target_dt)
    ELSE IF Lower(Val(day)) \notin DOMAIN DAY_NAMES THEN Raised
    ELSE Ok(AddDays(target_dt, DaysAhead(now, target_dt, DAY_NAMES[Lower(Val(day))])))

\* Mutant: replace(hour=hour, minute=0, second=0).
HourStepOnTheHour(target_dt, hour) ==
    IF IsNone(hour) THEN Ok(target_dt)
    ELSE IF ~(0 <= Val(hour) /\ Val(hour) <= 23) THEN Raised
    ELSE Ok([target_dt EXCEPT !.hour = Val(hour), !.minute = 0, !.second = 0])

\* Step 4: hour, minute and second, each replaced when given and in range.
HourStep(target_dt, hour) ==
    IF IsNone(hour) THEN Ok(target_dt)
    ELSE IF ~(0 <= Val(hour) /\ Val(hour) <= 23) THEN Raised
    ELSE Ok([target_dt EXCEPT !.hour = Val(hour)])

MinuteStep(target_dt, minute) ==
    IF IsNone(minute) THEN Ok(target_dt)
    ELSE IF ~(0 <= Val(minute) /\ Val(minute) <= 59) THEN Raised
    ELSE Ok([target_dt EXCEPT !.minute = Val(minute)])

SecondStep(target_dt, second) ==
    IF IsNone(second) THEN Ok(target_dt)
    ELSE IF ~(0 <= Val(second) /\ Val(second) <= 59) THEN Raised
    ELSE Ok([target_dt EXCEPT !.second = Val(second)])

\* Mutant: target_dt < self._fake_time, so that a candidate equal to now stays.
RolloverUnlessEqual(now, target_dt, day) ==
    IF TimeLt(target_dt, now)
    THEN (IF IsNone(day) THEN AddDays(target_dt, 1) ELSE AddDays(target_dt, 7))
    ELSE target_dt

\* Mutant: the two branches of "if day is not None" exchanged.
RolloverBranchesExchanged(now, target_dt, day) ==
    IF TimeLe(target_dt, now)
    THEN (IF IsNone(day) THEN AddDays(target_dt, 7) ELSE AddDays(target_dt, 1))
    ELSE target_dt

\* The final check: a candidate that is not after now moves on by a week when a
\* weekday was given, by a day otherwise.
Rollover(now, target_dt, day) ==
    IF TimeLe(target_dt, now)
    THEN (IF IsNone(day) THEN AddDays(target_dt, 1) ELSE AddDays(target_dt, 7))
    ELSE target_dt

\* The candidate after the four steps, before the final check.
JumpCandidate(now, a) ==
    LET r1 == MonthStep(now, a.month)
        r2 == IF r1.ok THEN DayOfMonthStep(now, r1.dt, a.day_of_month) ELSE Raised
        r3 == IF r2.ok THEN WeekdayStep(now, r2.dt, a.day) ELSE Raised
        r4 == IF r3.ok THEN HourStep(r3.dt, a.hour) ELSE Raised
        r5 == IF r4.ok THEN MinuteStep(r4.dt, a.minute) ELSE Raised
    IN  IF r5.ok THEN SecondStep(r5.dt, a.second) ELSE Raised

\* The target jump_to_next computes, or the ValueError it raises.
JumpTarget(now, a) ==
    LET c == JumpCandidate(now, a)
    IN  IF c.ok THEN Ok(Rollover(now, c.dt, a.day)) ELSE Raised

JumpResult(now, a, sinkRaises, hookRaises) ==
    LET t == JumpTarget(now, a)
    IN  IF t.ok THEN SetTime(now, t.dt, sinkRaises, hookRaises)
        ELSE Rejected(now, "ValueError")

JumpArgs(month, day, day_of_month, hour, minute, second) ==
    [month |-> month, day |-> day, day_of_month |-> day_of_month,
     hour |-> hour, minute |-> minute, second |-> second]

\* The calls a behaviour of several operations makes.
JumpCalls ==
    { JumpArgs(None, None, None, None, None, None),
      JumpArgs(Some("Feb"), Some("Monday"), Some(1), Some(10), None, None),
      JumpArgs(None, Some("Monday"), None, Some(10), None, None),
      JumpArgs(None, None, None, Some(2), None, None),
      JumpArgs(Some("jan"), None, None, None, None, None),
      JumpArgs(Some("APRIL"), None, Some(31), None, None, None),
      JumpArgs(None, Some("Wed"), None, None, None, None),
      JumpArgs(None, None, Some(31), None, Some(0), Some(0)),
      JumpArgs(Some("Smarch"), None, None, None, None, None),
      JumpArgs(None, Some("Funday"), None, None, None, None),
      JumpArgs(None, None, Some(0), None, None, None),
      JumpArgs(None, None, Some(32), None, None, None),
      JumpArgs(None, None, None, Some(24), None, None),
      JumpArgs(None, None, None, None, Some(60), None),
      JumpArgs(None, None, None, None, None, Some(-1)) }

jump_to_next ==
    /\ calls < MaxCalls
    /\ \E a \in JumpCalls, sinkRaises \in BOOLEAN, hookRaises \in HookOutcomes :
           Return("jump_to_next", a, JumpResult(fake_time, a, sinkRaises, hookRaises))

(***************************************************************************)
(* advance_to_preset                                                       *)
(***************************************************************************)

\* An attribute value of the sun.sun state: an ISO 8601 timestamp with its UTC
\* offset in minutes ("2026-06-21T05:00:00+00:00"), or some other text.
IsoTimestamp(dt, utcoffset) == [kind |-> "iso", dt |-> dt, utcoffset |-> utcoffset]
Text(t) == [kind |-> "text", text |-> t]

\* A parser that falls back on a default time for text that is no timestamp.
FromIsoformatOrMidsummer(v) ==
    IF v.kind = "iso" THEN Ok(v.dt) ELSE Ok(DT(2026, 6, 21, 0, 0, 0, 0))

\* datetime.fromisoformat(s).replace(tzinfo=None): the wall-clock fields are kept
\* and the offset dropped; text that is no timestamp raises ValueError.
FromIsoformatNaive(v) == IF v.kind = "iso" THEN Ok(v.dt) ELSE Raised

\* attributes.get("next_rising") or attributes.get("next_setting").
PresetAttribute(preset_lower) ==
    IF preset_lower = "sunrise" THEN "next_rising" ELSE "next_setting"

\* "not time_str_from_entity": the attribute is absent (None) or empty.
AttributeMissing(attributes, key) ==
    key \notin DOMAIN attributes \/ attributes[key] = Text("")

\* A forward check that lets a target equal to the logical time through.
NotForwardUnlessEqual(now, target_dt) == TimeLt(target_dt, now)

\* target_dt <= self._fake_time: the preset with its offset is not in the future.
NotForward(now, target_dt) == TimeLe(target_dt, now)

AdvanceResult(now, c, sinkRaises, hookRaises) ==
    LET preset_lower == Lower(c.preset)
        attributes   == IF "attributes" \in DOMAIN c.oracle.state
                        THEN c.oracle.state.attributes ELSE <<>>
        key          == PresetAttribute(preset_lower)
        preset_dt    == FromIsoformatNaive(attributes[key])
        offset_applied == IF IsNone(c.offset) THEN Timedelta(0, 0, 0) ELSE Val(c.offset)
        target_dt    == AddTimedelta(preset_dt.dt, offset_applied)
    IN  IF ~get_entity_state THEN Rejected(now, "ValueError")
        ELSE IF preset_lower \notin {"sunrise", "sunset"} THEN Rejected(now, "ValueError")
        ELSE IF c.oracle.kind = "raises" THEN Rejected(now, "HomeAssistantClientError")
        ELSE IF c.oracle.kind = "none" THEN Rejected(now, "TimeMachineError")
        ELSE IF AttributeMissing(attributes, key) THEN Rejected(now, "TimeMachineError")
        ELSE IF ~preset_dt.ok THEN Rejected(now, "TimeMachineError")
        ELSE IF NotForward(now, target_dt) THEN Rejected(now, "TimeMachineError")
        ELSE SetTime(now, target_dt, sinkRaises, hookRaises)

\* What get_entity_state("sun.sun") may do: raise, return None, or return a state.
OracleRaises == [kind |-> "raises"]
OracleNone == [kind |-> "none"]
OracleState(state) == [kind |-> "state", state |-> state]

SunUp ==
    OracleState([state |-> "below_horizon",
                 attributes |-> [next_rising |-> IsoTimestamp(DT(2026, 6, 21, 5, 0, 0, 0), 0),
                                 next_setting |-> IsoTimestamp(DT(2026, 6, 21, 21, 30, 0, 0), 60)]])

BadOracles ==
    { OracleRaises, OracleNone,
      OracleState([state |-> "unknown"]),
      OracleState([state |-> "below_horizon",
                   attributes |-> [next_setting |-> IsoTimestamp(DT(2026, 6, 21, 21, 30, 0, 0), 60)]]),
      OracleState([state |-> "below_horizon", attributes |-> [next_rising |-> Text("")]]),
      OracleState([state |-> "below_horizon", attributes |-> [next_rising |-> Text("tomorrow")]]) }

PresetCall(preset, offset, oracle) == [preset |-> preset, offset |-> offset, oracle |-> oracle]

PresetCalls ==
    { PresetCall(p, o, SunUp) :
        p \in {"Sunrise", "sunset", "Noon"},
        o \in {None, Some(Timedelta(0, -1800, 0)), Some(Timedelta(0, -21600, 0))} }
    \cup { PresetCall("sunrise", None, oracle) : oracle \in BadOracles }

advance_to_preset ==
    /\ calls < MaxCalls
    /\ \E c \in PresetCalls, sinkRaises \in BOOLEAN, hookRaises \in HookOutcomes :
           Return("advance_to_preset", c, AdvanceResult(fake_time, c, sinkRaises, hookRaises))

(***************************************************************************)
(* The TimeMachine after construction, and its behaviours.                 *)
(***************************************************************************)

\* datetime.now() at construction: the times the behaviours start from.
StartTimes ==
    { DT(2026, 1, 31, 14, 30, 0, 0),        \* a Saturday
      DT(2026, 1, 5, 8, 0, 0, 0),           \* a Monday
      DT(2026, 6, 20, 23, 0, 0, 0),
      DT(2027, 12, 31, 23, 59, 59, 500000) }

NoCall(now) ==
    [op |-> "init", args |-> <<>>, pre |-> now, result |-> "ok",
     sink_calls |-> <<>>, hook_calls |-> <<>>]

Init ==
    /\ fake_time \in StartTimes
    /\ on_time_set \in BOOLEAN
    /\ get_entity_state \in BOOLEAN
    /\ calls = 0
    /\ last = NoCall(fake_time)
    /\ sut_time = fake_time /\ real_elapsed = 0
    /\ ClientUnused /\ DockerUnused

\* The public methods of the TimeMachine class.
TimeMachineOperations == {"fast_forward", "jump_to_next", "advance_to_preset"}

Next == fast_forward \/ jump_to_next \/ advance_to_preset

Spec == Init /\ [][Next]_vars

(***************************************************************************)
(* jump_to_next as a function of the logical time and its arguments: one   *)
(* call, from every start time below, with every combination of the        *)
(* constraints below, on a TimeMachine wired as the time_machine fixture   *)
(* wires it (no hook, an oracle).                                          *)
(***************************************************************************)
JumpStartTimes ==
    { DT(y, m, d, t[1], t[2], t[3], t[4]) :
        y \in {2026, 2027}, m \in {1, 2, 4, 12}, d \in {1, 15, 28, 29, 30, 31},
        t \in {<<3, 0, 0, 0>>, <<14, 30, 0, 0>>, <<23, 59, 59, 500000>>} }

ValidDate(dt) == dt.day <= DaysInMonth(dt.year, dt.month)

JumpConstraints ==
    { JumpArgs(month, day, day_of_month, hour, minute, second) :
        month \in {None, Some("Jan"), Some("Feb"), Some("APRIL"), Some("December")},
        day \in {None, Some("Monday"), Some("sun")},
        day_of_month \in {None, Some(1), Some(15), Some(29), Some(30), Some(31)},
        hour \in {None, Some(2), Some(14)},
        minute \in {None, Some(0), Some(30)},
        second \in {None, Some(0)} }

InitJump ==
    /\ fake_time \in {dt \in JumpStartTimes : ValidDate(dt)} \cup {DT(2026, 1, 5, 8, 0, 0, 0)}
    /\ on_time_set = FALSE
    /\ get_entity_state = TRUE
    /\ calls = 0
    /\ last = NoCall(fake_time)
    /\ sut_time = fake_time /\ real_elapsed = 0
    /\ ClientUnused /\ DockerUnused

jump_once ==
    /\ calls = 0
    /\ \E a \in JumpConstraints, sinkRaises \in BOOLEAN :
           Return("jump_to_next", a, JumpResult(fake_time, a, sinkRaises, FALSE))

SpecJump == InitJump /\ [][jump_once]_vars

(***************************************************************************)
(* What the formulas below say of the last call.                           *)
(***************************************************************************)
Succeeded(op) == last.op = op /\ last.result = "ok"

SinkCalled == last.sink_calls # <<>>

SinkFailed(call) == call.sink_calls # <<>> /\ call.sink_calls[1].raised

Given(x) == ~IsNone(x)

\* The weekday, as a number, of a valid weekday name.
WeekdayOf(day) == DAY_NAMES[Lower(Val(day))]

\* The month, as a number, of a valid month name.
MonthOf(month) == MONTH_NAMES[Lower(Val(month))]

\* The time of day a call asks for: each given field, else the field of dt.
RequestedTimeOfDay(dt, a) ==
    [dt EXCEPT !.hour = IF Given(a.hour) THEN Val(a.hour) ELSE dt.hour,
               !.minute = IF Given(a.minute) THEN Val(a.minute) ELSE dt.minute,
               !.second = IF Given(a.second) THEN Val(a.second) ELSE dt.second]

\* dt's time of day on the calendar date of the given ordinal.
OnDate(dt, ordinal) ==
    LET ymd == FromOrdinal(ordinal)
    IN  [dt EXCEPT !.year = ymd.year, !.month = ymd.month, !.day = ymd.day]

(***************************************************************************)
(* C1: the logical time never decreases from one call to the next, whatever *)
(* the call and however it ends; a successful jump_to_next or              *)
(* advance_to_preset leaves it strictly greater, a successful fast_forward *)
(* greater or equal.                                                       *)
(***************************************************************************)
C1_Monotonic ==
    [][ /\ TimeLe(fake_time, fake_time')
        /\ (last'.op \in {"jump_to_next", "advance_to_preset"} /\ last'.result = "ok")
               => TimeLt(fake_time, fake_time')
        /\ (last'.op = "fast_forward" /\ last'.result = "ok")
               => TimeLe(fake_time, fake_time') ]_vars

\* A second call, an advance_to_preset, succeeded after the time had moved already.
C1_Witness ==
    /\ calls = 2
    /\ Succeeded("advance_to_preset")
    /\ last.pre \notin StartTimes
    /\ TimeLt(last.pre, fake_time)

(***************************************************************************)
(* C2: whenever jump_to_next calls the sink, the target it hands over (and *)
(* the second-resolution time printed in the string) is strictly after the *)
(* logical time at the start of the call.                                  *)
(***************************************************************************)
C2_JumpStrictlyForward ==
    last.op = "jump_to_next" =>
        \A i \in DOMAIN last.sink_calls :
            /\ TimeLt(last.pre, last.sink_calls[i].target)
            /\ TimeLt(last.pre, [last.sink_calls[i].target EXCEPT !.microsecond = 0])
            /\ last.sink_calls[i].arg = FaketimeString(last.sink_calls[i].target)

\* A call with no constraint at all reached the sink.
C2_Witness ==
    /\ last.op = "jump_to_next"
    /\ last.args = JumpArgs(None, None, None, None, None, None)
    /\ SinkCalled
    /\ fake_time = AddDays(last.pre, 1)

(***************************************************************************)
(* C3, as claimed: after a successful jump_to_next every constraint that   *)
(* was given is met exactly by the resulting logical time: month,          *)
(* day of month, weekday, hour, minute, second.                            *)
(***************************************************************************)
C3_AllConstraintsExact ==
    Succeeded("jump_to_next") =>
        /\ Given(last.args.month) => fake_time.month = MonthOf(last.args.month)
        /\ Given(last.args.day_of_month) => fake_time.day = Val(last.args.day_of_month)
        /\ Given(last.args.day) => Weekday(fake_time) = WeekdayOf(last.args.day)
        /\ Given(last.args.hour) => fake_time.hour = Val(last.args.hour)
        /\ Given(last.args.minute) => fake_time.minute = Val(last.args.minute)
        /\ Given(last.args.second) => fake_time.second = Val(last.args.second)

(***************************************************************************)
(* C3, amended: after a successful jump_to_next the weekday, hour, minute  *)
(* and second that were given are met exactly.  The day of month and the   *)
(* month are met only when no weekday was given: the day is then the       *)
(* requested one, or the last day of the resulting month when that month   *)
(* is shorter; the month is then the requested one unless the requested    *)
(* day does not exist in it (the result is then in the month after it).    *)
(***************************************************************************)
C3_ConstraintsMet ==
    Succeeded("jump_to_next") =>
        LET a   == last.args
            dim == DaysInMonth(fake_time.year, fake_time.month)
        IN  /\ Given(a.day) => Weekday(fake_time) = WeekdayOf(a.day)
            /\ Given(a.hour) => fake_time.hour = Val(a.hour)
            /\ Given(a.minute) => fake_time.minute = Val(a.minute)
            /\ Given(a.second) => fake_time.second = Val(a.second)
            /\ (Given(a.day_of_month) /\ ~Given(a.day)) =>
                   fake_time.day = (IF Val(a.day_of_month) > dim THEN dim
                                    ELSE Val(a.day_of_month))
            /\ (Given(a.month) /\ ~Given(a.day)) =>
                   IF Given(a.day_of_month)
                      /\ Val(a.day_of_month) > DaysInMonth(fake_time.year, MonthOf(a.month))
                   THEN fake_time.month = MonthOf(a.month) + 1
                   ELSE fake_time.month = MonthOf(a.month)

\* All six constraints were given and the call succeeded; the weekday step moved
\* the date off the requested day of the month.
C3_Witness ==
    /\ Succeeded("jump_to_next")
    /\ \A f \in {"month", "day", "day_of_month", "hour", "minute", "second"} :
           Given(last.args[f])
    /\ fake_time.day # Val(last.args.day_of_month)
    /\ Weekday(fake_time) = WeekdayOf(last.args.day)

(***************************************************************************)
(* C4: a successful jump_to_next leaves each of hour, minute and second    *)
(* that was not passed as it was before the call, whatever date            *)
(* constraints were given and whether or not the final check moved the     *)
(* candidate on.                                                           *)
(***************************************************************************)
C4_UnspecifiedTimePreserved ==
    Succeeded("jump_to_next") =>
        /\ ~Given(last.args.hour) => fake_time.hour = last.pre.hour
        /\ ~Given(last.args.minute) => fake_time.minute = last.pre.minute
        /\ ~Given(last.args.second) => fake_time.second = last.pre.second

\* Month, day of month, weekday and hour were given, minute and second were not,
\* and the date moved to another month.
C4_Witness ==
    /\ Succeeded("jump_to_next")
    /\ Given(last.args.month) /\ Given(last.args.day_of_month) /\ Given(last.args.day)
    /\ Given(last.args.hour) /\ ~Given(last.args.minute) /\ ~Given(last.args.second)
    /\ fake_time.hour # last.pre.hour
    /\ fake_time.month # last.pre.month
    /\ fake_time.minute = 30 /\ fake_time.second = 0

(***************************************************************************)
(* C5: from 2026-01-31 14:30:00, jump_to_next(month="Feb", day_of_month=1, *)
(* day="Monday", hour=10) succeeds (the sink and the hook permitting) and  *)
(* sets the logical time to 2026-02-02 10:30:00.                           *)
(***************************************************************************)
C5_ConstraintSequence ==
    ( /\ last.op = "jump_to_next"
      /\ last.pre = DT(2026, 1, 31, 14, 30, 0, 0)
      /\ last.args = JumpArgs(Some("Feb"), Some("Monday"), Some(1), Some(10), None, None) )
    => /\ last.result \in {"ok", "TimeMachineError"}
       /\ SinkCalled
       /\ last.result = "ok" => fake_time = DT(2026, 2, 2, 10, 30, 0, 0)

(***************************************************************************)
(* C6: a successful jump_to_next with no month, day-of-month or weekday    *)
(* constraint lands on the current date at the requested time of day when  *)
(* that is strictly after the logical time, and otherwise on exactly the   *)
(* following calendar day at the requested time of day.                    *)
(***************************************************************************)
C6_TimeOfDayRollover ==
    ( /\ Succeeded("jump_to_next")
      /\ ~Given(last.args.month) /\ ~Given(last.args.day_of_month) /\ ~Given(last.args.day) )
    => LET today == RequestedTimeOfDay(last.pre, last.args)
       IN  IF TimeLt(last.pre, today)
           THEN fake_time = today
           ELSE fake_time = OnDate(today, ToOrdinal(last.pre) + 1)

\* From 2026-01-15 03:00:00, jump_to_next(hour=2) gave 2026-01-16 02:00:00.
C6_Witness ==
    /\ Succeeded("jump_to_next")
    /\ last.pre = DT(2026, 1, 15, 3, 0, 0, 0)
    /\ last.args = JumpArgs(None, None, None, Some(2), None, None)
    /\ fake_time = DT(2026, 1, 16, 2, 0, 0, 0)

(***************************************************************************)
(* C7: a successful jump_to_next lands on the next datetime matching its   *)
(* constraints: no datetime strictly between the logical time before the   *)
(* call and the result has the requested month, day of month and weekday   *)
(* at the requested time of day (fields not given kept as before the call).*)
(***************************************************************************)
MatchesDate(dt, a) ==
    /\ Given(a.month) => dt.month = MonthOf(a.month)
    /\ Given(a.day_of_month) => dt.day = Val(a.day_of_month)
    /\ Given(a.day) => Weekday(dt) = WeekdayOf(a.day)

C7_NextMatching ==
    Succeeded("jump_to_next") =>
        ~ \E ordinal \in ToOrdinal(last.pre)..ToOrdinal(fake_time) :
              LET dt == OnDate(RequestedTimeOfDay(last.pre, last.args), ordinal)
              IN  /\ TimeLt(last.pre, dt)
                  /\ TimeLt(dt, fake_time)
                  /\ MatchesDate(dt, last.args)

(***************************************************************************)
(* C8: two successful calls fast_forward(a) then fast_forward(b) leave the *)
(* logical time, and hand the sink the time, that one fast_forward(a+b)    *)
(* from the same starting point does.                                      *)
(***************************************************************************)
C8_FastForwardAdditive ==
    [][ ( /\ last.op = "fast_forward" /\ last.result = "ok"
          /\ last'.op = "fast_forward" /\ last'.result = "ok" )
        => LET both == FastForwardTarget(last.pre,
                                         TimedeltaSum(last.args.delta, last'.args.delta))
           IN  /\ fake_time' = both
               /\ Len(last'.sink_calls) = 1
               /\ last'.sink_calls[1].arg = FaketimeString(both) ]_vars

\* fast_forward(14:37:42) and then fast_forward(1 day, 4:30:00), both successful,
\* from 2026-06-20 23:00:00: the second carries into the next day again.
C8_Witness ==
    /\ calls = 2
    /\ Succeeded("fast_forward")
    /\ last.args.delta = Timedelta(1, 16200, 0)
    /\ last.pre = DT(2026, 6, 21, 13, 37, 42, 0)
    /\ fake_time = DT(2026, 6, 22, 18, 7, 42, 0)

(***************************************************************************)
(* C9: fast_forward raises ValueError for exactly the negative durations,  *)
(* then calling neither sink nor hook and leaving the logical time alone;  *)
(* a zero duration is accepted, the sink is called with the current        *)
(* logical time, and the logical time keeps its value.                     *)
(***************************************************************************)
C9_NonNegativeDurations ==
    last.op = "fast_forward" =>
        LET delta == last.args.delta
            negative == delta.days < 0
        IN  /\ (last.result = "ValueError") <=> negative
            /\ negative => /\ last.sink_calls = <<>>
                           /\ last.hook_calls = <<>>
                           /\ fake_time = last.pre
            /\ delta = Timedelta(0, 0, 0) =>
                   /\ Len(last.sink_calls) = 1
                   /\ last.sink_calls[1].arg = FaketimeString(last.pre)
                   /\ fake_time = last.pre

\* A zero-length fast_forward succeeded.
C9_Witness ==
    /\ Succeeded("fast_forward")
    /\ last.args.delta = Timedelta(0, 0, 0)
    /\ SinkCalled
    /\ fake_time = last.pre

(***************************************************************************)
(* C10: when the sink raises, the operation raises TimeMachineError, the   *)
(* logical time is as it was before the call, the hook is not invoked, and *)
(* the next operation starts from that unchanged time.                     *)
(***************************************************************************)
C10_SinkFailureAtomic ==
    [][ /\ SinkFailed(last') =>
               /\ last'.op \in {"fast_forward", "jump_to_next", "advance_to_preset"}
               /\ last'.result = "TimeMachineError"
               /\ fake_time' = fake_time
               /\ last'.hook_calls = <<>>
        /\ SinkFailed(last) => last'.pre = last.pre ]_vars

\* With a hook configured and the time moved on by a first call, the sink failed in
\* the second: the time stayed, the hook was not called.
C10_Witness ==
    /\ calls = 2
    /\ on_time_set
    /\ last.pre \notin StartTimes
    /\ SinkFailed(last)
    /\ last.result = "TimeMachineError"
    /\ fake_time = last.pre
    /\ last.hook_calls = <<>>

(***************************************************************************)
(* C11: when the sink call succeeds and the on_time_set hook then raises,  *)
(* the time operation still reports success to its caller, and the logical *)
(* time is the new target.                                                 *)
(***************************************************************************)
HookFailed(call) ==
    /\ Len(call.hook_calls) = 1
    /\ call.hook_calls[1].raised

C11_HookFireAndForget ==
    ( /\ Len(last.sink_calls) = 1
      /\ ~SinkFailed(last)
      /\ HookFailed(last) )
    => /\ last.result = "ok"
       /\ fake_time = last.sink_calls[1].target

(***************************************************************************)
(* C12: a jump_to_next call given an unrecognised month or weekday name, a *)
(* day_of_month outside 1..31, an hour outside 0..23, or a minute or       *)
(* second outside 0..59 raises ValueError without calling the sink or the  *)
(* hook and leaves the logical time unchanged; a call whose supplied       *)
(* values are all valid never raises ValueError.                           *)
(***************************************************************************)
ValidJumpArgs(a) ==
    /\ Given(a.month) => Lower(Val(a.month)) \in DOMAIN MONTH_NAMES
    /\ Given(a.day) => Lower(Val(a.day)) \in DOMAIN DAY_NAMES
    /\ Given(a.day_of_month) => Val(a.day_of_month) \in 1..31
    /\ Given(a.hour) => Val(a.hour) \in 0..23
    /\ Given(a.minute) => Val(a.minute) \in 0..59
    /\ Given(a.second) => Val(a.second) \in 0..59

C12_ValidationBeforeSink ==
    last.op = "jump_to_next" =>
        IF ValidJumpArgs(last.args)
        THEN last.result # "ValueError"
        ELSE /\ last.result = "ValueError"
             /\ last.sink_calls = <<>> /\ last.hook_calls = <<>>
             /\ fake_time = last.pre

(***************************************************************************)
(* C13: when the oracle reports event time E for the requested preset,     *)
(* advance_to_preset with offset d (zero when none is given) calls the     *)
(* sink with E + d exactly when E + d is strictly after the logical time,  *)
(* and a call that succeeds leaves the logical time at exactly E + d; when *)
(* E + d is equal to or before the logical time the call fails with        *)
(* TimeMachineError, the sink is not called and the logical time is        *)
(* unchanged: E + d is never moved to a later day.                         *)
(***************************************************************************)
PresetRequested(c) == Lower(c.preset) \in {"sunrise", "sunset"}

\* The oracle's state carries a timestamp for the requested preset.
OracleReports(c) ==
    /\ c.oracle.kind = "state"
    /\ "attributes" \in DOMAIN c.oracle.state
    /\ PresetAttribute(Lower(c.preset)) \in DOMAIN c.oracle.state.attributes
    /\ c.oracle.state.attributes[PresetAttribute(Lower(c.preset))].kind = "iso"

EventTime(c) == c.oracle.state.attributes[PresetAttribute(Lower(c.preset))].dt

OffsetOf(c) == IF IsNone(c.offset) THEN Timedelta(0, 0, 0) ELSE Val(c.offset)

C13_PresetForwardCheck ==
    ( /\ last.op = "advance_to_preset"
      /\ get_entity_state
      /\ PresetRequested(last.args)
      /\ OracleReports(last.args) )
    => LET target == AddTimedelta(EventTime(last.args), OffsetOf(last.args))
       IN  IF TimeLt(last.pre, target)
           THEN /\ Len(last.sink_calls) = 1
                /\ last.sink_calls[1].target = target
                /\ last.result \in {"ok", "TimeMachineError"}
                /\ last.result = "ok" => fake_time = target
           ELSE /\ last.result = "TimeMachineError"
                /\ last.sink_calls = <<>>
                /\ fake_time = last.pre

\* The logical time reached sunrise, 2026-06-21 05:00:00, by an earlier call, and
\* advance_to_preset("sunrise", offset -6 h) then failed and left it there.
C13_Witness ==
    /\ calls = 2
    /\ last.op = "advance_to_preset"
    /\ get_entity_state
    /\ Lower(last.args.preset) = "sunrise"
    /\ last.args.oracle = SunUp
    /\ last.args.offset = Some(Timedelta(0, -21600, 0))
    /\ last.pre = DT(2026, 6, 21, 5, 0, 0, 0)
    /\ last.result = "TimeMachineError"
    /\ last.sink_calls = <<>>
    /\ fake_time = DT(2026, 6, 21, 5, 0, 0, 0)

(***************************************************************************)
(* C14: when the oracle returns no state for sun.sun, or a state whose     *)
(* attribute for the requested preset is absent, empty or not a timestamp, *)
(* advance_to_preset raises TimeMachineError, calls neither the sink nor   *)
(* the hook, and leaves the logical time unchanged.                        *)
(***************************************************************************)
OracleLacksData(c) ==
    \/ c.oracle.kind = "none"
    \/ /\ c.oracle.kind = "state"
       /\ ~OracleReports(c)

C14_MissingOracleData ==
    ( /\ last.op = "advance_to_preset"
      /\ get_entity_state
      /\ PresetRequested(last.args)
      /\ OracleLacksData(last.args) )
    => /\ last.result = "TimeMachineError"
       /\ last.sink_calls = <<>> /\ last.hook_calls = <<>>
       /\ fake_time = last.pre

\* After an earlier call moved the time, the oracle's next_rising was the text
\* "tomorrow" and the call failed.
C14_Witness ==
    /\ calls = 2
    /\ last.op = "advance_to_preset"
    /\ get_entity_state
    /\ last.args.oracle.kind = "state"
    /\ "attributes" \in DOMAIN last.args.oracle.state
    /\ "next_rising" \in DOMAIN last.args.oracle.state.attributes
    /\ last.args.oracle.state.attributes.next_rising = Text("tomorrow")
    /\ last.pre \notin StartTimes
    /\ last.result = "TimeMachineError"
    /\ fake_time = last.pre

(***************************************************************************)
(* C15: when the get_entity_state callback itself raises, the error that   *)
(* reaches the caller of advance_to_preset is a TimeMachineError, and the  *)
(* logical time is unchanged.                                              *)
(***************************************************************************)
C15_EntityFetchFailure ==
    ( /\ last.op = "advance_to_preset"
      /\ get_entity_state
      /\ PresetRequested(last.args)
      /\ last.args.oracle.kind = "raises" )
    => /\ last.result = "TimeMachineError"
       /\ fake_time = last.pre

(***************************************************************************)
(* The TimeMachine of the time_machine fixture (no hook, an oracle) and    *)
(* the clock of the system under test: the clock starts at the real time,  *)
(* is set by every sink call that succeeds, and runs on with real time     *)
(* between the operations.                                                 *)
(***************************************************************************)
\* The real time, in seconds, that one behaviour lets pass.
MaxElapsed == 12

\* The seconds that pass between two operations: within, and beyond, the tolerance
\* of the tests.
Sleeps == {2, 10}

real_time_passes ==
    \E s \in Sleeps :
        /\ real_elapsed + s <= MaxElapsed
        /\ real_elapsed' = real_elapsed + s
        /\ sut_time' = AddTimedelta(sut_time, Timedelta(0, s, 0))
        /\ UNCHANGED <<machineVars, last, clientVars, dockerVars>>

InitClock ==
    /\ fake_time \in StartTimes
    /\ on_time_set = FALSE
    /\ get_entity_state = TRUE
    /\ calls = 0
    /\ last = NoCall(fake_time)
    /\ sut_time = fake_time /\ real_elapsed = 0
    /\ ClientUnused /\ DockerUnused

NextClock == fast_forward \/ jump_to_next \/ advance_to_preset \/ real_time_passes

SpecClock == InitClock /\ [][NextClock]_vars

\* assert_datetime_is_approx: the two times differ by at most the tolerance.
ToleranceInSeconds == 5

IsApprox(a, b) ==
    /\ TimeLe(a, AddTimedelta(b, Timedelta(0, ToleranceInSeconds, 0)))
    /\ TimeLe(b, AddTimedelta(a, Timedelta(0, ToleranceInSeconds, 0)))

\* The step is a TimeMachine operation that reported success.
OperationSucceeds == calls' = calls + 1 /\ last'.result = "ok"

(***************************************************************************)
(* C16: after a successful fast_forward(delta) the time observed by the    *)
(* system under test is, within the tolerance of the tests, the time it    *)
(* observed immediately before the call plus delta, however much real time *)
(* has passed since the TimeMachine was made or last used.                 *)
(***************************************************************************)
C16_FastForwardFromObserved ==
    [][ (OperationSucceeds /\ last'.op = "fast_forward")
        => IsApprox(sut_time', AddTimedelta(sut_time, last'.args.delta)) ]_vars

(***************************************************************************)
(* C17: in every successful TimeMachine operation, whatever real time has  *)
(* passed before it, the time handed to the sink is not earlier than the   *)
(* time, in whole seconds, that the system under test observes at that     *)
(* moment.                                                                 *)
(***************************************************************************)
WholeSeconds(dt) == [dt EXCEPT !.microsecond = 0]

C17_SutTimeOnlyForward ==
    [][ OperationSucceeds
        => \A i \in 1..Len(last'.sink_calls) :
               TimeLe(WholeSeconds(sut_time), SutAfterSink(last'.sink_calls[i])) ]_vars

(***************************************************************************)
(* The HomeAssistant client (homeassistant_client.py): the entities that   *)
(* have a state in Home Assistant, and the ones the client tracks for      *)
(* removal after the test.  A request either gets its response or raises   *)
(* requests.RequestException, which the client re-raises as                *)
(* HomeAssistantClientError; a request that raised may or may not have     *)
(* taken effect in Home Assistant.                                         *)
(***************************************************************************)
EntityIds ==
    {"input_boolean.test_update", "input_boolean.auto_cleanup", "input_boolean.manual_cleanup"}

\* What becomes of one request: answered, lost on the way, or its answer lost.
Responses == {"answered", "refused", "answer_lost"}

Landed(response) == response \in {"answered", "answer_lost"}

Raises(response) == response # "answered"

ClientResult(response) == IF Raises(response) THEN "HomeAssistantClientError" ELSE "ok"

\* set_state: POST /api/states/<entity_id>.
StatesAfterPost(states, entity_id, response) ==
    IF Landed(response) THEN states \cup {entity_id} ELSE states

\* remove_entity: DELETE /api/states/<entity_id>; a 404 for an entity that has no
\* state is no error.
StatesAfterDelete(states, entity_id, response) ==
    IF Landed(response) THEN states \ {entity_id} ELSE states

\* A client that tracks the entity before it knows that set_state worked.
TrackedBeforeSetState(tracked, entity_id, response) == tracked \cup {entity_id}

\* given_an_entity: the entity is tracked once set_state has returned.
TrackedAfterGiven(tracked, entity_id, response) ==
    IF Raises(response) THEN tracked ELSE tracked \cup {entity_id}

\* The record of a client call: what was tracked before it, and the DELETE
\* requests it issued, in order.
ClientCall(op, args, result, removals) ==
    [op |-> op, args |-> args, result |-> result, removals |-> removals,
     tracked_before |-> created_entities, states_before |-> ha_states]

set_state ==
    \E entity_id \in EntityIds, response \in Responses :
        /\ ha_states' = StatesAfterPost(ha_states, entity_id, response)
        /\ last' = ClientCall("set_state", [entity_id |-> entity_id, response |-> response],
                              ClientResult(response), <<>>)
        /\ UNCHANGED <<created_entities, given, machineVars, clockVars, dockerVars>>

given_an_entity ==
    \E entity_id \in EntityIds, response \in Responses :
        /\ ha_states' = StatesAfterPost(ha_states, entity_id, response)
        /\ created_entities' = TrackedAfterGiven(created_entities, entity_id, response)
        /\ given' = IF Raises(response) THEN given ELSE given \cup {entity_id}
        /\ last' = ClientCall("given_an_entity", [entity_id |-> entity_id, response |-> response],
                              ClientResult(response), <<>>)
        /\ UNCHANGED <<machineVars, clockVars, dockerVars>>

remove_entity ==
    \E entity_id \in EntityIds, response \in Responses :
        /\ ha_states' = StatesAfterDelete(ha_states, entity_id, response)
        /\ last' = ClientCall("remove_entity", [entity_id |-> entity_id, response |-> response],
                              ClientResult(response), <<entity_id>>)
        /\ UNCHANGED <<created_entities, given, machineVars, clockVars, dockerVars>>

\* list(self._created_entities): the tracked entities, each once, in some order.
ListOf(S) ==
    CHOOSE seq \in [1..Cardinality(S) -> S] : \A e \in S : \E i \in DOMAIN seq : seq[i] = e

\* The loop of clean_up_test_entities over the entities still to do: every one
\* gets its DELETE, and is noted as removed or as an error.
RECURSIVE CleanUpLoop(_, _, _)
CleanUpLoop(todo, responses, done) ==
    IF todo = <<>> THEN done
    ELSE LET entity_id == Head(todo)
             response == responses[entity_id]
         IN  CleanUpLoop(Tail(todo), responses,
                 [states |-> StatesAfterDelete(done.states, entity_id, response),
                  removals |-> Append(done.removals, entity_id),
                  successfully_removed |->
                      IF Raises(response) THEN done.successfully_removed
                      ELSE Append(done.successfully_removed, entity_id),
                  errors |->
                      IF Raises(response) THEN Append(done.errors, entity_id)
                      ELSE done.errors])

Range(seq) == {seq[i] : i \in DOMAIN seq}

\* A cleanup that forgets every entity, removed or not.
DiscardAll(tracked, successfully_removed) == {}

\* The second loop: only the entities that were removed stop being tracked.
Discard(tracked, successfully_removed) == tracked \ Range(successfully_removed)

clean_up_test_entities ==
    \E responses \in [created_entities -> Responses] :
        LET done == CleanUpLoop(ListOf(created_entities), responses,
                        [states |-> ha_states, removals |-> <<>>,
                         successfully_removed |-> <<>>, errors |-> <<>>])
        IN  /\ ha_states' = done.states
            /\ created_entities' = Discard(created_entities, done.successfully_removed)
            /\ last' = ClientCall("clean_up_test_entities", [responses |-> responses],
                                  IF done.errors # <<>> THEN "HomeAssistantClientError" ELSE "ok",
                                  done.removals)
            /\ UNCHANGED <<given, machineVars, clockVars, dockerVars>>

(***************************************************************************)
(* The DockerComposeManager (docker_manager.py): the containers it tracks  *)
(* and the staged copy of the Home Assistant configuration.  The staged    *)
(* root is "None" (no copy was staged), "exists" (a directory on disk) or  *)
(* "removed" (the attribute still names it, the directory is gone).        *)
(***************************************************************************)
Services == {"homeassistant", "appdaemon"}

\* What running a docker command may do: return, exit with an error status
\* (CalledProcessError), not find the command (FileNotFoundError), or fail in
\* another way (PermissionError and the other OSErrors, UnicodeDecodeError).
RunOutcomes == {"ok", "CalledProcessError", "FileNotFoundError", "OSError"}

\* What filesystem work (staging the configuration, shutil.rmtree) may do.
FileOutcomes == {"ok", "OSError"}

\* start(): stage the configuration when persistent entities were given, run
\* "docker compose up -d --wait", and take the containers that "docker compose ps"
\* lists: on success and after CalledProcessError alike.
StartResult(now, persistent, staging, up, listed) ==
    IF persistent /\ staging # "ok"
    THEN [result |-> "PersistentEntityError", containers |-> now.containers,
          staged |-> now.staged, up_run |-> FALSE]
    ELSE LET staged == IF persistent THEN "exists" ELSE now.staged
         IN  CASE up = "ok" ->
                    [result |-> "ok", containers |-> listed, staged |-> staged,
                     up_run |-> TRUE]
               [] up = "CalledProcessError" ->
                    [result |-> "DockerError", containers |-> listed, staged |-> staged,
                     up_run |-> TRUE]
               [] up = "FileNotFoundError" ->
                    [result |-> "DockerError", containers |-> now.containers,
                     staged |-> staged, up_run |-> FALSE]
               [] OTHER ->
                    [result |-> up, containers |-> now.containers, staged |-> staged,
                     up_run |-> FALSE]

\* The record of a manager call, with what the manager held before it.
DockerCall(op, args, r) ==
    [op |-> op, args |-> args, result |-> r.result,
     containers_before |-> containers, staged_before |-> staged_ha_config_root,
     up_before |-> up_invoked,
     down_run |-> "down_run" \in DOMAIN r /\ r.down_run,
     rmtree_attempted |-> "rmtree_attempted" \in DOMAIN r /\ r.rmtree_attempted]

start ==
    /\ \E staging \in FileOutcomes, up \in RunOutcomes, listed \in SUBSET Services :
           LET r == StartResult([containers |-> containers, staged |-> staged_ha_config_root],
                                persistent_entities_path, staging, up, listed)
           IN  /\ containers' = r.containers
               /\ staged_ha_config_root' = r.staged
               /\ up_invoked' = (up_invoked \/ r.up_run)
               /\ last' = DockerCall("start", [staging |-> staging, up |-> up, listed |-> listed], r)
               /\ UNCHANGED <<persistent_entities_path, faketime_file,
                              machineVars, clockVars, clientVars>>

\* The end of stop(): remove the staged directory when there is one; a failure of
\* shutil.rmtree is logged.
StagedCleanup(staged, rmtree) ==
    IF staged = "exists"
    THEN [staged |-> IF rmtree = "ok" THEN "removed" ELSE "exists", rmtree_attempted |-> TRUE]
    ELSE [staged |-> staged, rmtree_attempted |-> FALSE]

\* stop(): nothing to bring down when no container is tracked; else "docker
\* compose down -v", whose CalledProcessError and FileNotFoundError are logged and
\* whose other exceptions leave the method, the containers cleared in either case;
\* then the cleanup of the staged directory.
StopResult(now, down, rmtree) ==
    LET cleanup == StagedCleanup(now.staged, rmtree)
    IN  IF now.containers = {}
        THEN [result |-> "ok", containers |-> {}, staged |-> cleanup.staged,
              down_run |-> FALSE, rmtree_attempted |-> cleanup.rmtree_attempted]
        ELSE IF down \in {"ok", "CalledProcessError", "FileNotFoundError"}
        THEN [result |-> "ok", containers |-> {}, staged |-> cleanup.staged,
              down_run |-> TRUE, rmtree_attempted |-> cleanup.rmtree_attempted]
        ELSE [result |-> down, containers |-> {}, staged |-> now.staged,
              down_run |-> TRUE, rmtree_attempted |-> FALSE]

stop ==
    \E down \in RunOutcomes, rmtree \in FileOutcomes :
        LET r == StopResult([containers |-> containers, staged |-> staged_ha_config_root],
                            down, rmtree)
        IN  /\ containers' = r.containers
            /\ staged_ha_config_root' = r.staged
            /\ up_invoked' = FALSE
            /\ last' = DockerCall("stop", [down |-> down, rmtree |-> rmtree], r)
            /\ UNCHANGED <<persistent_entities_path, faketime_file,
                           machineVars, clockVars, clientVars>>

\* _refresh_container_details: the containers that "docker compose ps -a" lists,
\* and none when the command or the reading of its output fails.
RefreshContainerDetails(ps, listed) == IF ps = "ok" THEN listed ELSE {}

\* What "docker compose ps -a" may list for the run: containers exist only once
\* "docker compose up" was run, and are not followed beyond a stop().
Listings == IF up_invoked THEN SUBSET Services ELSE {{}}

\* get_container_diagnostics(): the tracked containers become what a refresh
\* returns; the method returns its report whatever happens.
get_container_diagnostics ==
    \E ps \in RunOutcomes, listed \in Listings :
        /\ containers' = RefreshContainerDetails(ps, listed)
        /\ last' = DockerCall("get_container_diagnostics", [ps |-> ps, listed |-> listed],
                              [result |-> "ok"])
        /\ UNCHANGED <<staged_ha_config_root, persistent_entities_path, up_invoked,
                       faketime_file, machineVars, clockVars, clientVars>>

\* What containers_healthy() returns: False without tracked containers, else
\* whether "docker compose ps" ran and showed every container running and healthy.
ContainersHealthy(tracked, ps, all_healthy) ==
    IF tracked = {} THEN FALSE ELSE ps = "ok" /\ all_healthy

\* containers_healthy(): a query; the manager is left as it was.
containers_healthy ==
    \E ps \in RunOutcomes, all_healthy \in BOOLEAN :
        /\ last' = DockerCall("containers_healthy", [ps |-> ps, all_healthy |-> all_healthy],
                              [result |-> ContainersHealthy(containers, ps, all_healthy)])
        /\ UNCHANGED <<dockerVars, machineVars, clockVars, clientVars>>

(***************************************************************************)
(* The session of the docker and home_assistant fixtures (conftest.py):    *)
(* the manager is started and stopped, and the tests between use the       *)
(* client, whose tracked entities the _cleanup_test_entities fixture       *)
(* removes after each test.  No TimeMachine operation takes part.          *)
(***************************************************************************)
InitSession ==
    /\ fake_time = DT(2026, 1, 5, 8, 0, 0, 0)
    /\ on_time_set = FALSE
    /\ get_entity_state = TRUE
    /\ calls = 0
    /\ last = NoCall(fake_time)
    /\ sut_time = fake_time /\ real_elapsed = 0
    /\ ClientUnused
    /\ containers = {} /\ staged_ha_config_root = "None"
    /\ persistent_entities_path \in BOOLEAN
    /\ up_invoked = FALSE /\ faketime_file = "None"

InitClient == InitSession /\ persistent_entities_path = FALSE

NextClient == given_an_entity \/ set_state \/ remove_entity \/ clean_up_test_entities

SpecClient == InitClient /\ [][NextClient]_vars

NextDocker == start \/ get_container_diagnostics \/ containers_healthy \/ stop

SpecDocker == InitSession /\ [][NextDocker]_vars

(***************************************************************************)
(* C20: DockerComposeManager.stop never raises, whatever goes wrong while  *)
(* running docker compose down or removing the staged directory; the       *)
(* tracked container set is empty afterwards, and the removal of a staged  *)
(* configuration directory that exists is still attempted.                 *)
(***************************************************************************)
C20_StopNeverRaises ==
    last.op = "stop" =>
        /\ last.result = "ok"
        /\ containers = {}
        /\ last.staged_before = "exists" => last.rmtree_attempted

(***************************************************************************)
(* C18: clean_up_test_entities issues a removal for every tracked entity,  *)
(* whatever the earlier removals did; when it finishes, the tracked set is *)
(* exactly the entities whose removal failed, and it raises                *)
(* HomeAssistantClientError if and only if at least one removal failed; so *)
(* a call in which every removal succeeds leaves the tracked set empty,    *)
(* and a later call attempts only what an earlier one left.                *)
(***************************************************************************)
RemovalFailed(call) == {e \in call.tracked_before : Raises(call.args.responses[e])}

C18_CleanupKeepsFailures ==
    last.op = "clean_up_test_entities" =>
        /\ Range(last.removals) = last.tracked_before
        /\ created_entities = RemovalFailed(last)
        /\ last.result = "HomeAssistantClientError" <=> RemovalFailed(last) # {}
        /\ last.result = "ok" <=> RemovalFailed(last) = {}
        /\ last.result = "ok" => created_entities = {}

\* A cleanup of three tracked entities in which one removal failed and two worked.
C18_Witness ==
    /\ last.op = "clean_up_test_entities"
    /\ last.tracked_before = EntityIds
    /\ Cardinality(RemovalFailed(last)) = 1
    /\ created_entities = RemovalFailed(last)
    /\ last.result = "HomeAssistantClientError"
    /\ Len(last.removals) = 3

(***************************************************************************)
(* C19: the tracked set holds only entity ids that some given_an_entity    *)
(* call has set the state of; a given_an_entity call for an id that is     *)
(* tracked already leaves the tracked set as it was, and a cleanup issues  *)
(* exactly one removal for each tracked id and none for any other, so an   *)
(* entity that only set_state created is never tracked and never removed   *)
(* by a cleanup.                                                           *)
(***************************************************************************)
Removals(call, entity_id) ==
    Cardinality({i \in DOMAIN call.removals : call.removals[i] = entity_id})

C19_OnlyGivenEntitiesTracked ==
    /\ created_entities \subseteq given
    /\ last.op = "given_an_entity" =>
           /\ last.result = "ok" => created_entities = last.tracked_before \cup {last.args.entity_id}
           /\ last.result # "ok" => created_entities = last.tracked_before
    /\ last.op \in {"set_state", "remove_entity"} => created_entities = last.tracked_before
    /\ last.op = "clean_up_test_entities" =>
           /\ \A e \in EntityIds :
                  Removals(last, e) = IF e \in last.tracked_before THEN 1 ELSE 0
           /\ Range(last.removals) \subseteq given
           /\ \A e \in last.states_before \ given : e \in ha_states

\* A cleanup removed the one tracked entity, with one request, and left alone the
\* two entities that have a state without a given_an_entity call having returned.
C19_Witness ==
    /\ last.op = "clean_up_test_entities"
    /\ last.result = "ok"
    /\ Cardinality(given) = 1
    /\ last.tracked_before = given
    /\ last.removals = ListOf(given)
    /\ Cardinality(ha_states) = 2
    /\ ha_states \cap given = {}
    /\ created_entities = {}

OnlyMonthGiven(a) ==
    /\ Given(a.month) /\ ~Given(a.day) /\ ~Given(a.day_of_month)
    /\ ~Given(a.hour) /\ ~Given(a.minute) /\ ~Given(a.second)

C22_SameMonthStays ==
    ( /\ Succeeded("jump_to_next")
      /\ Given(last.args.month)
      /\ MonthOf(last.args.month) = last.pre.month )
    => /\ OnlyMonthGiven(last.args) => fake_time = AddDays(last.pre, 1)
       /\ ( /\ Given(last.args.day_of_month) /\ ~Given(last.args.day)
            /\ Val(last.args.day_of_month) > last.pre.day
            /\ Val(last.args.day_of_month) <= DaysInMonth(last.pre.year, last.pre.month) )
          => fake_time.year = last.pre.year /\ fake_time.month = last.pre.month

(***************************************************************************)
(* C23: a jump_to_next call with valid arguments, given a month in which   *)
(* the day of the logical time does not exist, does not fail in the month  *)
(* step: it raises no ValueError, and calls the sink.                      *)
(***************************************************************************)
\* The year the month step looks for the month in.
MonthStepYear(now, month) ==
    IF MonthOf(month) <= now.month THEN now.year + 1 ELSE now.year

C23_MonthStepClamps ==
    ( /\ last.op = "jump_to_next"
      /\ ValidJumpArgs(last.args)
      /\ Given(last.args.month)
      /\ last.pre.day > DaysInMonth(MonthStepYear(last.pre, last.args.month),
                                    MonthOf(last.args.month)) )
    => /\ last.result # "ValueError"
       /\ SinkCalled

(***************************************************************************)
(* C24: a successful jump_to_next(month=M, day_of_month=d), where month M  *)
(* has fewer than d days, lands on the last day of month M.                *)
(***************************************************************************)
C24_ClampsWithinMonth ==
    ( /\ Succeeded("jump_to_next")
      /\ Given(last.args.month) /\ Given(last.args.day_of_month) /\ ~Given(last.args.day)
      /\ Val(last.args.day_of_month) >
             DaysInMonth(MonthStepYear(last.pre, last.args.month), MonthOf(last.args.month)) )
    => /\ fake_time.month = MonthOf(last.args.month)
       /\ fake_time.day = DaysInMonth(fake_time.year, fake_time.month)

(***************************************************************************)
(* C25: given a weekday, jump_to_next moves the candidate of the month and *)
(* day-of-month steps forward by the least number of days in 0..6 that     *)
(* lands on that weekday, and by 7 days when the candidate is on that      *)
(* weekday already and is not strictly after the logical time; a           *)
(* successful call then lands on that date at the requested time of day.   *)
(* With the weekday as the only constraint the result is on the requested  *)
(* weekday, 1 to 7 days after the logical time, at the same time of day.   *)
(***************************************************************************)
\* The candidate that reaches the weekday step.
BeforeWeekdayStep(now, a) ==
    DayOfMonthStep(now, MonthStep(now, a.month).dt, a.day_of_month).dt

\* The least number of days in 0..6 from dt to the weekday.
LeastDaysTo(dt, weekday) ==
    LET from == Weekday(dt)
    IN  CHOOSE k \in 0..6 : (from + k) % 7 = weekday

OnlyWeekdayGiven(a) ==
    /\ Given(a.day) /\ ~Given(a.month) /\ ~Given(a.day_of_month)
    /\ ~Given(a.hour) /\ ~Given(a.minute) /\ ~Given(a.second)

C25_WeekdayStep ==
    ( Succeeded("jump_to_next") /\ Given(last.args.day) )
    => LET candidate == BeforeWeekdayStep(last.pre, last.args)
           k == LeastDaysTo(candidate, WeekdayOf(last.args.day))
           moved == IF k = 0 /\ TimeLe(candidate, last.pre)
                    THEN AddDays(candidate, 7) ELSE AddDays(candidate, k)
       IN  /\ fake_time = RequestedTimeOfDay(moved, last.args)
           /\ OnlyWeekdayGiven(last.args) =>
                  /\ Weekday(fake_time) = WeekdayOf(last.args.day)
                  /\ \E n \in 1..7 : fake_time = AddDays(last.pre, n)

\* From Monday 2026-01-05 08:00:00, jump_to_next(day="Monday", hour=14) went a
\* full week, to 2026-01-12 14:00:00.
C25_Witness ==
    /\ Succeeded("jump_to_next")
    /\ last.pre = DT(2026, 1, 5, 8, 0, 0, 0)
    /\ last.args = JumpArgs(None, Some("Monday"), None, Some(14), None, None)
    /\ fake_time = DT(2026, 1, 12, 14, 0, 0, 0)

(***************************************************************************)
(* C26: after the four steps of jump_to_next the candidate is not strictly *)
(* after the logical time only when no month, day of month or weekday was  *)
(* given; the rollover then adds exactly one day, and never seven.         *)
(***************************************************************************)
C26_RolloverOnlyForTimeOfDay ==
    last.op = "jump_to_next" =>
        LET candidate == JumpCandidate(last.pre, last.args)
        IN  (candidate.ok /\ TimeLe(candidate.dt, last.pre))
            => /\ ~Given(last.args.month) /\ ~Given(last.args.day_of_month)
               /\ ~Given(last.args.day)
               /\ Len(last.sink_calls) = 1
               /\ last.sink_calls[1].target = AddDays(candidate.dt, 1)
               /\ last.result = "ok" => fake_time = AddDays(candidate.dt, 1)

\* From 2026-01-15 14:30:00, jump_to_next(minute=0) had 14:00:00 of the same day
\* as its candidate and went to 2026-01-16 14:00:00.
C26_Witness ==
    /\ Succeeded("jump_to_next")
    /\ last.pre = DT(2026, 1, 15, 14, 30, 0, 0)
    /\ last.args = JumpArgs(None, None, None, None, Some(0), None)
    /\ JumpCandidate(last.pre, last.args).dt = DT(2026, 1, 15, 14, 0, 0, 0)
    /\ fake_time = DT(2026, 1, 16, 14, 0, 0, 0)

(***************************************************************************)
(* C27: every successful fast_forward, jump_to_next or advance_to_preset   *)
(* calls the sink exactly once, with the target formatted as               *)
(* "@YYYY-MM-DD HH:MM:SS", then commits the target as the logical time,    *)
(* then calls the hook, when one is configured, exactly once; the hook is  *)
(* never called unless the sink call returned and the target was           *)
(* committed; an operation that ends in ValueError, or in an oracle or     *)
(* not-forward error, calls neither; and no operation calls the sink more  *)
(* than once.                                                              *)
(***************************************************************************)
\* "@YYYY-MM-DD HH:MM:SS", of the date and time fields of dt.
TwoDigits(n) == IF n < 10 THEN "0" \o ToString(n) ELSE ToString(n)

AtDateTime(dt) ==
    "@" \o ToString(dt.year) \o "-" \o TwoDigits(dt.month) \o "-" \o TwoDigits(dt.day)
        \o " " \o TwoDigits(dt.hour) \o ":" \o TwoDigits(dt.minute) \o ":" \o TwoDigits(dt.second)

\* The call ended before _set_time.
FailedBeforeSink(call) ==
    \/ call.result \in {"ValueError", "HomeAssistantClientError"}
    \/ /\ call.op = "advance_to_preset"
       /\ call.result = "TimeMachineError"
       /\ \/ ~OracleReports(call.args)
          \/ TimeLe(AddTimedelta(EventTime(call.args), OffsetOf(call.args)), call.pre)

C27_OrderOfEffects ==
    last.op \in TimeMachineOperations =>
        /\ Len(last.sink_calls) <= 1 /\ Len(last.hook_calls) <= 1
        /\ last.result = "ok" =>
               /\ Len(last.sink_calls) = 1
               /\ ~last.sink_calls[1].raised
               /\ last.sink_calls[1].arg = AtDateTime(last.sink_calls[1].target)
               /\ fake_time = last.sink_calls[1].target
               /\ Len(last.hook_calls) = (IF on_time_set THEN 1 ELSE 0)
        /\ last.hook_calls # <<>> =>
               /\ Len(last.sink_calls) = 1
               /\ ~last.sink_calls[1].raised
               /\ fake_time = last.sink_calls[1].target
        /\ FailedBeforeSink(last) =>
               last.sink_calls = <<>> /\ last.hook_calls = <<>>

\* A second operation succeeded with a hook configured: one sink call, one hook call.
C27_Witness ==
    /\ calls = 2
    /\ on_time_set
    /\ last.op = "advance_to_preset"
    /\ last.result = "ok"
    /\ Len(last.sink_calls) = 1
    /\ last.sink_calls[1].arg = "@2026-06-21 21:00:00"
    /\ Len(last.hook_calls) = 1
    /\ fake_time = DT(2026, 6, 21, 21, 0, 0, 0)

(***************************************************************************)
(* C28: in every operation, whatever the sink and the hook do, the logical *)
(* time becomes the target of the sink call when that call returned        *)
(* without error, and stays as it was otherwise; so the logical time is    *)
(* always the target of the most recent sink call that succeeded, or the   *)
(* time of construction when none has.                                     *)
(***************************************************************************)
SinkAccepted(call) == call.sink_calls # <<>> /\ ~call.sink_calls[1].raised

C28_ClockAndSinkInStep ==
    [][ calls' = calls + 1 =>
            IF SinkAccepted(last')
            THEN fake_time' = last'.sink_calls[1].target
            ELSE fake_time' = fake_time ]_vars

\* The sink accepted the time of a second operation whose hook then failed: the
\* operation raised, and the logical time is the accepted target.
C28_Witness ==
    /\ calls = 2
    /\ SinkAccepted(last)
    /\ HookFailed(last)
    /\ last.result = "TimeMachineError"
    /\ last.pre \notin StartTimes
    /\ fake_time = last.sink_calls[1].target
    /\ TimeLt(last.pre, fake_time)

(***************************************************************************)
(* The TimeMachine of the time_machine fixture (conftest.py): its sink is  *)
(* write_container_file on the homeassistant service, it has no hook, and  *)
(* its oracle is the client's get_state.  The session goes on around it:   *)
(* diagnostics may be taken and the manager stopped.                       *)
(***************************************************************************)

\* write_container_file: nothing is done when no container is tracked for the
\* service; else "docker exec" writes the file, or fails and the method raises.
WriteContainerFile(tracked, service, exec) ==
    IF tracked = {} \/ service \notin tracked THEN "skipped"
    ELSE IF exec = "ok" THEN "written"
    ELSE "raised"

\* A call of the fixture's TimeMachine returns: the file holds the string the sink
\* was called with when docker exec wrote it, and is as it was otherwise; the
\* system under test follows the file.
FixtureReturn(op, args, r, write) ==
    LET wrote == r.sink_calls # <<>> /\ write = "written"
    IN  ReturnWith(op, args, r,
                   IF wrote THEN SutAfterSink(r.sink_calls[1]) ELSE sut_time,
                   IF wrote THEN r.sink_calls[1].arg ELSE faketime_file)

\* The service and the file the fixture's sink writes.
FaketimeService == "homeassistant"

fixture_fast_forward ==
    /\ calls < MaxCalls
    /\ \E delta \in Deltas, exec \in RunOutcomes :
           LET write == WriteContainerFile(containers, FaketimeService, exec)
           IN  FixtureReturn("fast_forward", [delta |-> delta],
                             FastForwardResult(fake_time, delta, write = "raised", FALSE),
                             write)

fixture_jump_to_next ==
    /\ calls < MaxCalls
    /\ \E a \in JumpCalls, exec \in RunOutcomes :
           LET write == WriteContainerFile(containers, FaketimeService, exec)
           IN  FixtureReturn("jump_to_next", a,
                             JumpResult(fake_time, a, write = "raised", FALSE), write)

fixture_advance_to_preset ==
    /\ calls < MaxCalls
    /\ \E c \in PresetCalls, exec \in RunOutcomes :
           LET write == WriteContainerFile(containers, FaketimeService, exec)
           IN  FixtureReturn("advance_to_preset", c,
                             AdvanceResult(fake_time, c, write = "raised", FALSE), write)

\* datetime.now() when the fixture is built.
FixtureStartTimes == { DT(2026, 1, 5, 8, 0, 0, 0), DT(2026, 6, 20, 23, 0, 0, 0) }

\* The fixture is built once the docker and home_assistant fixtures are: start()
\* has returned and the containers of both services are tracked.
InitFixture ==
    /\ fake_time \in FixtureStartTimes
    /\ on_time_set = FALSE
    /\ get_entity_state = TRUE
    /\ calls = 0
    /\ last = NoCall(fake_time)
    /\ sut_time = fake_time /\ real_elapsed = 0
    /\ ClientUnused
    /\ containers = Services
    /\ staged_ha_config_root = "None" /\ persistent_entities_path = FALSE
    /\ up_invoked = TRUE /\ faketime_file = "None"

NextFixture ==
    \/ fixture_fast_forward \/ fixture_jump_to_next \/ fixture_advance_to_preset
    \/ get_container_diagnostics \/ stop

SpecFixture == InitFixture /\ [][NextFixture]_vars

(***************************************************************************)
(* C29: with the time_machine fixture's wiring, whenever a TimeMachine     *)
(* operation returns successfully and has advanced the logical time, the   *)
(* faketime file in the container holds that time: the logical time never  *)
(* advances while the file stays as it was, also when the manager no       *)
(* longer tracks a homeassistant container.                                *)
(***************************************************************************)
C29_TimeAdvancesWithFile ==
    (last.op \in TimeMachineOperations /\ last.result = "ok" /\ fake_time # last.pre)
        => faketime_file = FaketimeString(fake_time)

(***************************************************************************)
(* C30: once start() has run docker compose up, with or without success,   *)
(* the next stop() runs docker compose down, whatever calls of start,      *)
(* get_container_diagnostics and containers_healthy came between and       *)
(* whatever their refreshes of the container details returned.             *)
(***************************************************************************)
C30_StopTearsDown ==
    (last.op = "stop" /\ last.up_before) => last.down_run

=============================================================================
